---- MODULE Spec2Model ----
(***************************************************************************)
(* MEM1 memory store of Context-Engineering: MemoryManager (the store),    *)
(* MemoryConsolidator, MemoryRetriever and EfficiencyOptimizer, with the   *)
(* MemoryAPI and orchestrator entry points that reach them.                *)
(*                                                                         *)
(* Numbers.  Python floats in [0,1] are fixed-point integers in units of   *)
(* 1/Scale (0.8 is 8000); a division truncates.  Comparisons against a     *)
(* threshold that can be decided exactly are decided by cross              *)
(* multiplication.                                                         *)
(*                                                                         *)
(* Text.  A str is a sequence of lexemes: a word, a digit, ".", " " or     *)
(* "\n".  Two words are never adjacent without a separator, so a lowercase *)
(* alphabetic needle is a substring of the text iff it is a substring of   *)
(* one lexeme (Subs).                                                      *)
(*                                                                         *)
(* A dict is a sequence of <<key, value>> entries in insertion order.      *)
(***************************************************************************)
EXTENDS Integers, Sequences, FiniteSets, TLC

\* ------------------------------------------------------------------ bounds
\* config.memory_budget of the modelled store
memory_budget == 2
\* operations in one run: the clock advances by one with each
MaxTime == 4
\* the number of consolidation passes after which no further pass is started
MaxConsolidations == 8

\* --------------------------------------------------------------- constants
Scale == 10000
\* retrieval.py:179 min_relevance = 0.1
min_relevance == 1000
\* retrieval.py:197 similarity_threshold = 0.8
similarity_threshold == 8000
\* manager.py:164 reasoning_value = 0.8 of an experience
experience_value == 8000
\* manager.py:240 length normalisation
length_norm == 500
\* retrieval.py:159
max_expected_accesses == 10
\* manager.py:116 default max_results
default_max_results == 5
\* config.consolidation_frequency as examples/memory_operations.py sets it
consolidation_frequency == 3

\* -------------------------------------------------------------------- text
Space == {" ", "\n"}

\* len() of one lexeme
LexLen(l) ==
    CASE l \in {" ", "\n", "."} -> 1
      [] l \in {"1", "2", "3", "4", "5", "6", "7", "8", "9"} -> 1
      [] l \in {"go", "up", "on"} -> 2
      [] l \in {"Key", "key"} -> 3
      [] l \in {"data", "thus"} -> 4
      [] l \in {"Based", "based", "items"} -> 5
      [] l \in {"neural", "deeper", "always", "memory", "Query:", "query:"} -> 6
      [] l \in {"related", "Result:", "result:"} -> 7
      [] l \in {"analysis", "INSIGHT:", "insight:"} -> 8
      [] l \in {"findings:"} -> 9
      [] l \in {"CONSOLIDATED", "consolidated"} -> 12

\* str.lower() of one lexeme
LowerLex(l) ==
    CASE l = "CONSOLIDATED" -> "consolidated"
      [] l = "INSIGHT:" -> "insight:"
      [] l = "Key" -> "key"
      [] l = "Based" -> "based"
      [] l = "Query:" -> "query:"
      [] l = "Result:" -> "result:"
      [] OTHER -> l

\* the needles of the three indicator lists that occur in a lowercase lexeme
Subs(l) ==
    CASE l = "analysis" -> {"analysis"}
      [] l = "insight:" -> {"insight"}
      [] l = "thus" -> {"thus"}
      [] OTHER -> {}

\* len(content)
RECURSIVE StrLen(_)
StrLen(s) ==
    IF Len(s) = 0 THEN 0
    ELSE IF Len(s) = 1 THEN LexLen(s[1])
    ELSE LET half == Len(s) \div 2
         IN  StrLen(SubSeq(s, 1, half)) + StrLen(SubSeq(s, half + 1, Len(s)))

\* content.lower()
Lower(s) == [i \in 1..Len(s) |-> LowerLex(s[i])]

\* needle in content.lower()
Contains(s, needle) == \E i \in 1..Len(s) : needle \in Subs(LowerLex(s[i]))

\* str.split(): the maximal runs of non-whitespace lexemes
Split(s) ==
    LET index == [i \in 1..Len(s) |-> i]
        starts == SelectSeq(index, LAMBDA i : s[i] \notin Space /\ (i = 1 \/ s[i - 1] \in Space))
        ends == SelectSeq(index,
                          LAMBDA i : s[i] \notin Space /\ (i = Len(s) \/ s[i + 1] \in Space))
    IN  [k \in 1..Len(starts) |-> SubSeq(s, starts[k], ends[k])]

\* str.split('.'): the pieces between dots, empty pieces kept
SplitDot(s) ==
    LET index == [i \in 1..Len(s) |-> i]
        dots == SelectSeq(index, LAMBDA i : s[i] = ".")
        First(k) == IF k = 1 THEN 1 ELSE dots[k - 1] + 1
        Last(k) == IF k = Len(dots) + 1 THEN Len(s) ELSE dots[k] - 1
    IN  [k \in 1..(Len(dots) + 1) |->
            IF First(k) > Last(k) THEN <<>> ELSE SubSeq(s, First(k), Last(k))]

\* str.strip()
RECURSIVE LStrip(_)
LStrip(s) == IF s # <<>> /\ Head(s) \in Space THEN LStrip(Tail(s)) ELSE s

RECURSIVE RStrip(_)
RStrip(s) ==
    IF s # <<>> /\ s[Len(s)] \in Space THEN RStrip(SubSeq(s, 1, Len(s) - 1)) ELSE s

Strip(s) == RStrip(LStrip(s))

\* set(text.lower().split())
TokenSet(s) == LET t == Split(Lower(s)) IN {t[i] : i \in 1..Len(t)}

\* str(n) for the small counts the model prints
NumStr(n) ==
    CASE n = 1 -> "1" [] n = 2 -> "2" [] n = 3 -> "3" [] n = 4 -> "4" [] n = 5 -> "5"
      [] n = 6 -> "6" [] n = 7 -> "7" [] n = 8 -> "8" [] OTHER -> "9"

Min(a, b) == IF a <= b THEN a ELSE b
Max(a, b) == IF a >= b THEN a ELSE b

\* ------------------------------------------------------------------ inputs
TextA == <<"neural", " ", "go", " ", "up">>
TextB == <<"neural", " ", "go", " ", "up", " ", "deeper", " ", "always">>
TextC == <<"analysis", " ", "data">>
TextD == <<"deeper", " ", "go", " ", "up">>
TextM == <<"memory", " ", "memory", " ", "memory">>
TextN == <<"memory", " ", "memory", " ", "memory", " ", "neural">>

EmptyCtx == <<>>
DomainCtx == <<(<<"domain", "ml">>)>>

\* -------------------------------------------------------------------- state
VARIABLES
    memory_items,           \* MemoryManager.memory_items: dict key -> MemoryItem
    consolidated_insights,  \* the keys of MemoryManager.consolidated_insights
    interaction_count,      \* MemoryManager.interaction_count
    consolidation_count,    \* BaseMemoryProcessor.consolidation_count
    processing_count,       \* BaseContextProcessor.processing_count
    efficiency_history,     \* EfficiencyOptimizer.efficiency_history
    now,                    \* the clock read by time.time() and loop.time()
    efficiency_target,      \* config.efficiency_target
    in_progress,            \* the consolidate_memory call that has computed its result
                            \* and not yet assigned it, <<>> when there is none
    op,                     \* the operation that returned last
    ret                     \* its arguments and what it returned

vars == <<memory_items, consolidated_insights, interaction_count, consolidation_count,
          processing_count, efficiency_history, now, efficiency_target, in_progress, op, ret>>

\* ------------------------------------------------------------- dict helpers
Keys(d) == {d[i][1] : i \in 1..Len(d)}
Values(d) == [i \in 1..Len(d) |-> d[i][2]]
HasKey(d, k) == \E i \in 1..Len(d) : d[i][1] = k
IndexOf(d, k) == CHOOSE i \in 1..Len(d) : d[i][1] = k
Get(d, k) == d[IndexOf(d, k)][2]

\* d[k] = v: an existing key keeps its position, a new key goes last
Put(d, k, v) ==
    IF HasKey(d, k) THEN [d EXCEPT ![IndexOf(d, k)] = <<k, v>>]
    ELSE Append(d, <<k, v>>)

\* del d[k]
Del(d, k) == SelectSeq(d, LAMBDA e : e[1] # k)

\* sorted(d.items(), key=reasoning_value): stable, ascending
RECURSIVE InsertAsc(_, _)
InsertAsc(sorted, e) ==
    IF sorted = <<>> THEN <<e>>
    ELSE IF sorted[Len(sorted)][2].reasoning_value <= e[2].reasoning_value
         THEN Append(sorted, e)
         ELSE Append(InsertAsc(SubSeq(sorted, 1, Len(sorted) - 1), e), sorted[Len(sorted)])

RECURSIVE SortedByValueFrom(_, _)
SortedByValueFrom(d, acc) ==
    IF d = <<>> THEN acc ELSE SortedByValueFrom(Tail(d), InsertAsc(acc, Head(d)))

SortedByValue(d) == SortedByValueFrom(d, <<>>)

\* ------------------------------------------------------------------- scorer
reasoning_indicators ==
    {"analysis", "conclusion", "insight", "pattern", "relationship",
     "because", "therefore", "thus", "consequently", "implies"}

\* MemoryManager._assess_reasoning_value
assess_reasoning_value(content, base_priority) ==
    LET indicator_count == Cardinality({ind \in reasoning_indicators : Contains(content, ind)})
        length_factor == Min(Scale, (StrLen(content) * Scale) \div length_norm)
        weighted == (4000 * indicator_count) \div Cardinality(reasoning_indicators)
                    + (3 * length_factor) \div 10
                    + 3000
        reasoning_value == (base_priority * weighted) \div Scale
    IN  Min(Scale, reasoning_value)

\* the dataclass MemoryItem
MemoryItem(id, content, context, reasoning_value, timestamp, access_count) ==
    [id |-> id, content |-> content, context |-> context,
     reasoning_value |-> reasoning_value, timestamp |-> timestamp,
     access_count |-> access_count, last_accessed |-> 0]

\* -------------------------------------------------------------------- store
\* variant: a budget enforcement that removes nothing
enforce_memory_budget_keeps_all(items) == items

\* variant: a budget enforcement that removes the highest-valued items
enforce_memory_budget_drops_highest(items) ==
    IF Len(items) <= memory_budget THEN items
    ELSE LET sorted_memories == SortedByValue(items)
             removed == {sorted_memories[i][1] : i \in (memory_budget + 1)..Len(items)}
         IN  SelectSeq(items, LAMBDA e : e[1] \notin removed)

\* MemoryManager._enforce_memory_budget
enforce_memory_budget(items) ==
    IF Len(items) <= memory_budget THEN items
    ELSE LET sorted_memories == SortedByValue(items)
             memories_to_remove == Len(items) - memory_budget
             removed == {sorted_memories[i][1] : i \in 1..memories_to_remove}
         IN  SelectSeq(items, LAMBDA e : e[1] \notin removed)

\* MemoryManager.store_memory: the dict after the call
store_memory(items, key, content, priority, t) ==
    LET memory_item == MemoryItem(key, content, EmptyCtx,
                                  assess_reasoning_value(content, priority), t, 0)
        stored == Put(items, key, memory_item)
    IN  IF Len(stored) > memory_budget THEN enforce_memory_budget(stored) ELSE stored

\* ---------------------------------------------------------------- retriever
\* len(token) of a token of split(): the lexemes between two whitespaces
TokenLen(t) == StrLen(t)

\* MemoryRetriever._calculate_semantic_similarity
calculate_semantic_similarity(query, content) ==
    LET query_tokens == TokenSet(query)
        content_tokens == TokenSet(content)
        intersection == Cardinality(query_tokens \cap content_tokens)
        union == Cardinality(query_tokens \cup content_tokens)
        jaccard == IF union > 0 THEN (intersection * Scale) \div union ELSE 0
        important_terms == {t \in query_tokens : TokenLen(t) > 4}
        important_matches == Cardinality(important_terms \cap content_tokens)
        importance_boost ==
            IF important_terms # {}
            THEN (important_matches * 3000) \div Cardinality(important_terms)
            ELSE 0
    IN  IF query_tokens = {} \/ content_tokens = {} THEN 0
        ELSE Min(Scale, jaccard + importance_boost)

\* str(value).lower() in str(other).lower(), for the context values of the model
ValueWithin(value, other) == value = other \/ <<value, other>> \in {<<"ml", "ml ops">>}

\* MemoryRetriever._calculate_context_relevance
RECURSIVE ContextScore(_, _)
ContextScore(context, memory_context) ==
    IF context = <<>> THEN 0
    ELSE LET key == Head(context)[1]
             value == Head(context)[2]
             here == IF ~HasKey(memory_context, key) THEN 0
                     ELSE IF Get(memory_context, key) = value THEN Scale
                     ELSE IF ValueWithin(value, Get(memory_context, key)) THEN Scale \div 2
                     ELSE 0
         IN  here + ContextScore(Tail(context), memory_context)

calculate_context_relevance(context, memory) ==
    IF context = <<>> THEN 0
    ELSE ContextScore(context, memory.context) \div Len(context)

\* decay_threshold = 24 * 3600 seconds
decay_threshold == 86400

\* exp(-0.1 * hours), hours whole, in units of 1/Scale
ExpDecay(hours) ==
    CASE hours = 0 -> 10000 [] hours = 1 -> 9048 [] hours = 2 -> 8187 [] hours = 3 -> 7408
      [] hours = 4 -> 6703 [] hours = 5 -> 6065 [] hours = 6 -> 5488 [] hours = 7 -> 4965
      [] hours = 8 -> 4493 [] hours = 9 -> 4065 [] hours = 10 -> 3678 [] hours = 11 -> 3328
      [] hours = 12 -> 3011 [] hours = 13 -> 2725 [] hours = 14 -> 2465 [] hours = 15 -> 2231
      [] hours = 16 -> 2018 [] hours = 17 -> 1826 [] hours = 18 -> 1652 [] hours = 19 -> 1495
      [] hours = 20 -> 1353 [] hours = 21 -> 1224 [] hours = 22 -> 1108 [] hours = 23 -> 1002
      [] OTHER -> 907

\* variant: a recency factor at its floor 0.1 whatever the age
calculate_recency_factor_floor(memory, current_time) == 1000

\* MemoryRetriever._calculate_recency_factor
calculate_recency_factor(memory, current_time) ==
    LET memory_age == current_time - memory.timestamp
    IN  IF memory_age < decay_threshold THEN Scale
        ELSE Max(1000, ExpDecay((memory_age - decay_threshold) \div 3600))

\* log(1 + n * e) / log(1 + e) for n = access_count / 10, in units of 1/Scale
LogScaled(access_count) ==
    CASE access_count = 1 -> 1830 [] access_count = 2 -> 3305 [] access_count = 3 -> 4541
      [] access_count = 4 -> 5603 [] access_count = 5 -> 6535 [] access_count = 6 -> 7366
      [] access_count = 7 -> 8114 [] access_count = 8 -> 8796 [] access_count = 9 -> 9421
      [] OTHER -> 10000

\* MemoryRetriever._calculate_frequency_factor
calculate_frequency_factor(memory) ==
    IF memory.access_count > 0
    THEN LogScaled(Min(max_expected_accesses, memory.access_count))
    ELSE 0

\* MemoryRetriever._calculate_comprehensive_relevance
calculate_comprehensive_relevance(query, context, memory, current_time) ==
    LET semantic_relevance == calculate_semantic_similarity(query, memory.content)
        context_relevance == calculate_context_relevance(context, memory)
        recency_factor == calculate_recency_factor(memory, current_time)
        frequency_factor == calculate_frequency_factor(memory)
        comprehensive_relevance ==
            (semantic_relevance * 4000 + context_relevance * 2500
             + memory.reasoning_value * 2000 + recency_factor * 1500
             + frequency_factor * 1000) \div Scale
    IN  Min(Scale, comprehensive_relevance)

\* variant: a descending insertion that puts an entry before the entries of equal score
RECURSIVE InsertDescBeforeTies(_, _)
InsertDescBeforeTies(sorted, e) ==
    IF sorted = <<>> THEN <<e>>
    ELSE IF sorted[Len(sorted)][3] > e[3]
         THEN Append(sorted, e)
         ELSE Append(InsertDescBeforeTies(SubSeq(sorted, 1, Len(sorted) - 1), e),
                     sorted[Len(sorted)])

\* list.sort(key=score, reverse=True): stable, descending; entries <<key, memory, score>>
RECURSIVE InsertDesc(_, _)
InsertDesc(sorted, e) ==
    IF sorted = <<>> THEN <<e>>
    ELSE IF sorted[Len(sorted)][3] >= e[3]
         THEN Append(sorted, e)
         ELSE Append(InsertDesc(SubSeq(sorted, 1, Len(sorted) - 1), e), sorted[Len(sorted)])

RECURSIVE SortedByScoreFrom(_, _)
SortedByScoreFrom(scored, acc) ==
    IF scored = <<>> THEN acc ELSE SortedByScoreFrom(Tail(scored), InsertDesc(acc, Head(scored)))

SortedByScore(scored) == SortedByScoreFrom(scored, <<>>)

\* MemoryRetriever._apply_diversity_filter
RECURSIVE DiverseFrom(_, _)
DiverseFrom(memories, diverse_memories) ==
    IF memories = <<>> THEN diverse_memories
    ELSE LET memory == Head(memories)[2]
             is_diverse ==
                 \A j \in 1..Len(diverse_memories) :
                     calculate_semantic_similarity(memory.content, diverse_memories[j][2].content)
                         <= similarity_threshold
         IN  DiverseFrom(Tail(memories),
                         IF is_diverse THEN Append(diverse_memories, Head(memories))
                         ELSE diverse_memories)

apply_diversity_filter(memories) ==
    IF Len(memories) <= 1 THEN memories ELSE DiverseFrom(memories, <<>>)

\* MemoryRetriever._apply_retrieval_filters (the context filter returns its input)
apply_retrieval_filters(scored_memories) ==
    apply_diversity_filter(SelectSeq(scored_memories, LAMBDA e : e[3] >= min_relevance))

\* the scored list of retrieve_memories before sorting, in dict order
ScoredMemories(query, context, items, current_time) ==
    [i \in 1..Len(items) |->
        <<items[i][1], items[i][2],
          calculate_comprehensive_relevance(query, context, items[i][2], current_time)>>]

\* filtered_memories[:max_results]: a negative max_results counts from the end
Take(s, n) ==
    IF n >= 0 THEN SubSeq(s, 1, Min(n, Len(s))) ELSE SubSeq(s, 1, Max(0, Len(s) + n))

\* MemoryRetriever.retrieve_memories: the <<key, memory, score>> entries returned
retrieve_memories(query, context, items, max_results, current_time) ==
    IF items = <<>> THEN <<>>
    ELSE Take(apply_retrieval_filters(
                  SortedByScore(ScoredMemories(query, context, items, current_time))),
              max_results)

\* ---------------------------------------------------------------- efficiency
\* EfficiencyOptimizer.calculate_retrieval_efficiency: the score returned
retrieval_efficiency(retrieved_count, total_memories) ==
    IF total_memories = 0 THEN Scale
    ELSE LET retrieval_ratio == (retrieved_count * Scale) \div total_memories
             base_efficiency == Scale - Min(9000, retrieval_ratio)
             targeting_bonus ==
                 IF 20 * retrieved_count >= total_memories /\ 5 * retrieved_count <= total_memories
                 THEN 2000
                 ELSE IF 20 * retrieved_count < total_memories
                      THEN 0 - (1000 * (500 - retrieval_ratio)) \div 500
                      ELSE 0 - (1000 * (retrieval_ratio - 2000)) \div 8000
         IN  Min(Scale, base_efficiency + targeting_bonus)

\* EfficiencyOptimizer.calculate_retrieval_efficiency: efficiency_history after the call
record_retrieval(history, retrieved_count, total_memories, current_time) ==
    IF total_memories = 0 THEN history
    ELSE Append(history, [timestamp |-> current_time,
                          retrieval_efficiency |-> retrieval_efficiency(retrieved_count, total_memories),
                          retrieved_count |-> retrieved_count,
                          total_memories |-> total_memories])

\* -------------------------------------------------------------- consolidator
stop_words ==
    {<<"the">>, <<"a">>, <<"an">>, <<"and">>, <<"or">>, <<"but">>, <<"in">>, <<"on">>,
     <<"at">>, <<"to">>, <<"for">>, <<"of">>, <<"with">>, <<"by">>}

\* MemoryConsolidator._extract_key_terms
extract_key_terms(content) ==
    Take(SelectSeq(Split(Lower(content)),
                   LAMBDA word : TokenLen(word) > 3 /\ word \notin stop_words),
         10)

\* MemoryConsolidator._classify_reasoning_type
classify_reasoning_type(content) ==
    IF \E w \in {"analysis", "analyze"} : Contains(content, w) THEN "analytical"
    ELSE IF \E w \in {"conclusion", "therefore", "thus"} : Contains(content, w) THEN "deductive"
    ELSE IF \E w \in {"because", "since", "cause"} : Contains(content, w) THEN "causal"
    ELSE IF \E w \in {"pattern", "trend", "relationship"} : Contains(content, w)
         THEN "pattern_recognition"
    ELSE "general"

\* defaultdict(list)[name].append(memory_id), the groups in order of first use
AppendTo(groups, name, memory_id) ==
    IF HasKey(groups, name)
    THEN [groups EXCEPT ![IndexOf(groups, name)] = <<name, Append(@[2], memory_id)>>]
    ELSE Append(groups, <<name, <<memory_id>> >>)

RECURSIVE AppendAll(_, _, _)
AppendAll(groups, names, memory_id) ==
    IF names = <<>> THEN groups
    ELSE AppendAll(AppendTo(groups, Head(names), memory_id), Tail(names), memory_id)

\* MemoryConsolidator._analyze_memory_patterns: patterns["topic_clusters"]
RECURSIVE TopicClustersFrom(_, _)
TopicClustersFrom(items, clusters) ==
    IF items = <<>> THEN clusters
    ELSE TopicClustersFrom(Tail(items),
             AppendAll(clusters, extract_key_terms(Head(items)[2].content), Head(items)[1]))

topic_clusters(items) == TopicClustersFrom(items, <<>>)

\* MemoryConsolidator._identify_reasoning_chains
RECURSIVE ReasoningGroupsFrom(_, _)
ReasoningGroupsFrom(items, groups) ==
    IF items = <<>> THEN groups
    ELSE ReasoningGroupsFrom(Tail(items),
             AppendTo(groups, classify_reasoning_type(Head(items)[2].content), Head(items)[1]))

identify_reasoning_chains(items) ==
    Values(SelectSeq(ReasoningGroupsFrom(items, <<>>), LAMBDA g : Len(g[2]) >= 2))

Elems(s) == {s[i] : i \in 1..Len(s)}

\* [mid for mid in memory_ids if mid not in processed_memories]
RECURSIVE NotIn(_, _)
NotIn(ids, processed) ==
    IF ids = <<>> THEN <<>>
    ELSE IF Head(ids) \in processed THEN NotIn(Tail(ids), processed)
         ELSE <<Head(ids)>> \o NotIn(Tail(ids), processed)

\* one loop of _identify_consolidation_groups over id lists that have at least
\* min_members ids; st = <<consolidation_groups, processed_memories>>
RECURSIVE GroupLoop(_, _, _)
GroupLoop(lists, min_members, st) ==
    IF lists = <<>> THEN st
    ELSE LET memory_ids == Head(lists)
             available == NotIn(memory_ids, st[2])
         IN  GroupLoop(Tail(lists), min_members,
                 IF Len(memory_ids) >= min_members /\ Len(available) >= 2
                 THEN <<Append(st[1], available), st[2] \cup Elems(available)>>
                 ELSE st)

\* MemoryConsolidator._identify_consolidation_groups
identify_consolidation_groups(clusters, chains) ==
    GroupLoop(chains, 2, GroupLoop(Values(clusters), 3, <<(<<>>), {}>>))[1]

synthesis_indicators == {"analysis", "conclusion", "insight", "therefore", "because"}

\* the key points one content contributes: its stripped sentences with an indicator
KeySentences(content) ==
    LET sentences == SplitDot(content)
        hits == SelectSeq(sentences,
                          LAMBDA sentence : \E ind \in synthesis_indicators : Contains(sentence, ind))
    IN  [i \in 1..Len(hits) |-> Strip(hits[i])]

RECURSIVE Concat(_)
Concat(ss) == IF ss = <<>> THEN <<>> ELSE Head(ss) \o Concat(Tail(ss))

\* MemoryConsolidator._synthesize_content
synthesize_content(content_list) ==
    LET indicated == Concat([i \in 1..Len(content_list) |-> KeySentences(content_list[i])])
        nonblank == SelectSeq(content_list, LAMBDA content : Strip(content) # <<>>)
        key_points == IF indicated # <<>> THEN indicated
                      ELSE [i \in 1..Len(nonblank) |-> SplitDot(nonblank[i])[1]]
        top == Take(key_points, 5)
        numbered == Concat([i \in 1..Len(top) |-> <<NumStr(i), ".", " ">> \o top[i] \o <<"\n">>])
    IN  <<"CONSOLIDATED", " ", "INSIGHT:", "\n", "\n", "Key", " ", "findings:", "\n">>
        \o numbered
        \o <<"\n", "Based", " ", "on", " ", NumStr(Len(content_list)), " ",
             "related", " ", "memory", " ", "items", ".">>

RECURSIVE SumValues(_)
SumValues(memories) ==
    IF memories = <<>> THEN 0 ELSE Head(memories).reasoning_value + SumValues(Tail(memories))

RECURSIVE SumAccess(_)
SumAccess(memories) ==
    IF memories = <<>> THEN 0 ELSE Head(memories).access_count + SumAccess(Tail(memories))

RECURSIVE MaxTimestamp(_)
MaxTimestamp(memories) ==
    IF memories = <<>> THEN 0 ELSE Max(Head(memories).timestamp, MaxTimestamp(Tail(memories)))

\* variant: a merged value taken from the highest source value
merged_value_of_max(memories) ==
    LET highest == CHOOSE m \in Elems(memories) :
                       \A o \in Elems(memories) : o.reasoning_value <= m.reasoning_value
    IN  Min(Scale, (highest.reasoning_value * 12) \div 10)

\* variant: the merged value without the cap at 1.0
merged_value_uncapped(memories) == (SumValues(memories) * 12) \div (Len(memories) * 10)

\* min(1.0, combined_reasoning_value / len(memories) * 1.2)
merged_value(memories) == Min(Scale, (SumValues(memories) * 12) \div (Len(memories) * 10))

\* MemoryConsolidator._consolidate_group
consolidate_group(memories) ==
    MemoryItem(<<"consolidated_at", MaxTimestamp(memories)>>,
               synthesize_content([i \in 1..Len(memories) |-> memories[i].content]),
               EmptyCtx,
               merged_value(memories),
               MaxTimestamp(memories),
               SumAccess(memories))

\* the key f"consolidated_{len(consolidated_memories)}" of a merged item
consolidated_id(consolidated_memories) == <<"consolidated", Len(consolidated_memories)>>

\* MemoryConsolidator._perform_consolidation
RECURSIVE PerformFrom(_, _, _)
PerformFrom(items, groups, consolidated_memories) ==
    IF groups = <<>> THEN consolidated_memories
    ELSE LET group == Head(groups)
             consolidated_memory == consolidate_group([i \in 1..Len(group) |-> Get(items, group[i])])
             remaining == SelectSeq(consolidated_memories, LAMBDA e : e[1] \notin Elems(group))
         IN  PerformFrom(items, Tail(groups),
                 IF Len(group) < 2 THEN consolidated_memories
                 ELSE Put(remaining, consolidated_id(remaining), consolidated_memory))

perform_consolidation(items, groups) == PerformFrom(items, groups, items)

\* MemoryConsolidator._extract_insights: the keys of the insights dict, each
\* <<kind, topic, number, id kind>>
extract_insights(consolidated_memories, clusters, chains) ==
    {<<"topic_insight", clusters[i][1], 0, "">> :
        i \in {j \in 1..Len(clusters) : Len(clusters[j][2]) >= 2}}
    \cup {<<"chain_insight", <<>>, i - 1, "">> : i \in {j \in 1..Len(chains) : Len(chains[j]) >= 2}}
    \cup {<<"memory_insight", <<>>, consolidated_memories[i][1][2], consolidated_memories[i][1][1]>> :
            i \in {j \in 1..Len(consolidated_memories) :
                      consolidated_memories[j][2].reasoning_value > 8000}}

\* MemoryConsolidator._calculate_current_efficiency >= efficiency_target
efficiency_reached(memories, target) ==
    memories = <<>> \/ SumValues(Values(memories)) >= target * Len(memories)

\* MemoryConsolidator._prune_low_value_memories: <<kept_memories, pruned_count>>
prune_low_value_memories(memories, target) ==
    IF efficiency_reached(memories, target) THEN <<memories, 0>>
    ELSE LET sorted_memories == SortedByValue(memories)
             target_count == (Len(memories) * target) \div Scale
             pruned_count == Len(memories) - target_count
         IN  <<IF target_count > 0
               THEN SubSeq(sorted_memories, Len(memories) - target_count + 1, Len(memories))
               ELSE <<>>,
               pruned_count>>

\* MemoryConsolidator._calculate_efficiency_improvement
calculate_efficiency_improvement(original_count, final_count) ==
    IF original_count = 0 THEN Scale
    ELSE Min(Scale, 5000 + ((original_count - final_count) * Scale) \div original_count)

\* variant: an empty store consolidated with the base efficiency 0.5
consolidate_memories_empty_half(items, target) ==
    IF items = <<>>
    THEN [updated_memories |-> <<>>, insights |-> {}, efficiency_score |-> 5000,
          memories_consolidated |-> 0, memories_pruned |-> 0]
    ELSE LET clusters == topic_clusters(items)
             chains == identify_reasoning_chains(items)
             consolidation_groups == identify_consolidation_groups(clusters, chains)
             consolidated_memories == perform_consolidation(items, consolidation_groups)
             pruned == prune_low_value_memories(consolidated_memories, target)
         IN  [updated_memories |-> pruned[1],
              insights |-> extract_insights(consolidated_memories, clusters, chains),
              efficiency_score |-> calculate_efficiency_improvement(Len(items), Len(pruned[1])),
              memories_consolidated |-> Len(consolidation_groups),
              memories_pruned |-> pruned[2]]

\* MemoryConsolidator.consolidate_memories
consolidate_memories(items, target) ==
    IF items = <<>>
    THEN [updated_memories |-> <<>>, insights |-> {}, efficiency_score |-> Scale,
          memories_consolidated |-> 0, memories_pruned |-> 0]
    ELSE LET clusters == topic_clusters(items)
             chains == identify_reasoning_chains(items)
             consolidation_groups == identify_consolidation_groups(clusters, chains)
             consolidated_memories == perform_consolidation(items, consolidation_groups)
             pruned == prune_low_value_memories(consolidated_memories, target)
         IN  [updated_memories |-> pruned[1],
              insights |-> extract_insights(consolidated_memories, clusters, chains),
              efficiency_score |-> calculate_efficiency_improvement(Len(items), Len(pruned[1])),
              memories_consolidated |-> Len(consolidation_groups),
              memories_pruned |-> pruned[2]]

\* --------------------------------------------------------------- operations
\* the state after construction with config.efficiency_target = target
InitWith(target) ==
    /\ memory_items = <<>>
    /\ consolidated_insights = {}
    /\ interaction_count = 0
    /\ consolidation_count = 0
    /\ processing_count = 0
    /\ efficiency_history = <<>>
    /\ now = 0
    /\ efficiency_target = target
    /\ in_progress = <<>>
    /\ op = "init"
    /\ ret = <<>>

\* MemoryConfig.efficiency_target = 0.8, the default
default_efficiency_target == 8000

\* a store configured with a low efficiency target, 0.3
low_efficiency_target == 3000

Init == InitWith(default_efficiency_target)

InitLowTarget == InitWith(low_efficiency_target)

\* variant: an update that counts every retrieval twice
touch_twice(items, keys, current_time) ==
    [i \in 1..Len(items) |->
        IF items[i][1] \in keys
        THEN <<items[i][1], [items[i][2] EXCEPT !.access_count = @ + 2,
                                                !.last_accessed = current_time]>>
        ELSE items[i]]

\* the access statistics update of retrieve_relevant_memories
touch(items, keys, current_time) ==
    [i \in 1..Len(items) |->
        IF items[i][1] \in keys
        THEN <<items[i][1], [items[i][2] EXCEPT !.access_count = @ + 1,
                                                !.last_accessed = current_time]>>
        ELSE items[i]]

\* the keys of the memories a retrieval returns, in order
ResultKeys(relevant_memories) == [i \in 1..Len(relevant_memories) |-> relevant_memories[i][1]]

\* the key f"user_memory_{loop.time()}" MemoryAPI.store_memory makes
user_memory_key(current_time) == <<"user_memory", current_time>>

\* MemoryManager.store_memory, called by MemoryAPI.store_memory with a key of the
\* clock or by a caller with the key of a live item
StoreMemory(key, content, priority) ==
    /\ now < MaxTime
    /\ memory_items' = store_memory(memory_items, key, content, priority, now)
    /\ ret' = [key |-> key, content |-> content, priority |-> priority]
    /\ interaction_count' = interaction_count + 1
    /\ now' = now + 1
    /\ op' = "store_memory"
    /\ UNCHANGED <<consolidated_insights, consolidation_count, processing_count,
                   efficiency_history, efficiency_target, in_progress>>

\* MemoryManager.retrieve_relevant_memories
RetrieveRelevantMemories(query, context, max_results) ==
    /\ now < MaxTime
    /\ LET relevant_memories == retrieve_memories(query, context, memory_items, max_results, now)
       IN  /\ memory_items' = touch(memory_items, Elems(ResultKeys(relevant_memories)), now)
           /\ efficiency_history' = record_retrieval(efficiency_history, Len(relevant_memories),
                                                     Len(memory_items), now)
           /\ ret' = [memories |-> ResultKeys(relevant_memories),
                      query |-> query, context |-> context, max_results |-> max_results,
                      retrieval_efficiency |->
                          retrieval_efficiency(Len(relevant_memories), Len(memory_items))]
    /\ now' = now + 1
    /\ op' = "retrieve_relevant_memories"
    /\ UNCHANGED <<consolidated_insights, interaction_count, consolidation_count,
                   processing_count, efficiency_target, in_progress>>

\* the ConsolidationResult of a report of consolidate_memories
ConsolidationResult(report) ==
    [insights |-> report.insights, efficiency_score |-> report.efficiency_score,
     memories_consolidated |-> report.memories_consolidated,
     memories_pruned |-> report.memories_pruned]

\* MemoryManager.consolidate_memory
ConsolidateMemory ==
    /\ now < MaxTime
    /\ LET report == consolidate_memories(memory_items, efficiency_target)
       IN  /\ memory_items' = report.updated_memories
           /\ consolidated_insights' = consolidated_insights \cup report.insights
           /\ ret' = ConsolidationResult(report)
    /\ consolidation_count' = consolidation_count + 1
    /\ now' = now + 1
    /\ op' = "consolidate_memory"
    /\ UNCHANGED <<interaction_count, processing_count, efficiency_history, efficiency_target, in_progress>>

\* MemoryManager.consolidate_memory called again within the same clock reading
\* (the pass never reads the clock)
ConsolidateMemoryAgain ==
    /\ consolidation_count < MaxConsolidations
    /\ LET report == consolidate_memories(memory_items, efficiency_target)
       IN  /\ memory_items' = report.updated_memories
           /\ consolidated_insights' = consolidated_insights \cup report.insights
           /\ ret' = ConsolidationResult(report)
    /\ consolidation_count' = consolidation_count + 1
    /\ op' = "consolidate_memory"
    /\ UNCHANGED <<interaction_count, processing_count, efficiency_history, efficiency_target, in_progress, now>>

\* MemoryManager.consolidate_memory up to the return of consolidate_memories: the
\* result is computed from the dict as it is now (no lock is taken)
ConsolidateMemoryBegin ==
    /\ now < MaxTime
    /\ in_progress = <<>>
    /\ in_progress' = [snapshot |-> memory_items,
                       report |-> consolidate_memories(memory_items, efficiency_target)]
    /\ op' = "consolidate_memory_begin"
    /\ UNCHANGED <<memory_items, consolidated_insights, interaction_count, consolidation_count,
                   processing_count, efficiency_history, now, efficiency_target, ret>>

\* MemoryManager.consolidate_memory from the assignment of self.memory_items on
ConsolidateMemoryEnd ==
    /\ now < MaxTime
    /\ in_progress # <<>>
    /\ memory_items' = in_progress.report.updated_memories
    /\ consolidated_insights' = consolidated_insights \cup in_progress.report.insights
    /\ ret' = ConsolidationResult(in_progress.report)
    /\ consolidation_count' = consolidation_count + 1
    /\ in_progress' = <<>>
    /\ now' = now + 1
    /\ op' = "consolidate_memory"
    /\ UNCHANGED <<interaction_count, processing_count, efficiency_history, efficiency_target>>

\* the content f"Query: {query}\nResult: {result}" of an experience
experience_content(query, result) ==
    <<"Query:", " ">> \o query \o <<"\n", "Result:", " ">> \o result

\* the key f"experience_{len(self.memory_items)}"
experience_key(items) == <<"experience", Len(items)>>

\* the dict after consolidate_experience has stored the experience
store_experience(items, query, result, context, t) ==
    LET id == experience_key(items)
        experience_memory == MemoryItem(id, experience_content(query, result), context,
                                        experience_value, t, 0)
    IN  Put(items, id, experience_memory)

\* MemoryManager.consolidate_experience (orchestrator phase 7)
ConsolidateExperience(query, result, context) ==
    /\ now < MaxTime
    /\ LET report == consolidate_memories(
                         store_experience(memory_items, query, result, context, now),
                         efficiency_target)
       IN  /\ memory_items' = report.updated_memories
           /\ consolidated_insights' = consolidated_insights \cup report.insights
           /\ ret' = ConsolidationResult(report) @@
                         [key |-> experience_key(memory_items), query |-> query,
                          result |-> result, context |-> context]
    /\ consolidation_count' = consolidation_count + 1
    /\ now' = now + 1
    /\ op' = "consolidate_experience"
    /\ UNCHANGED <<interaction_count, processing_count, efficiency_history, efficiency_target, in_progress>>

\* the key f"memory_{len(self.memory_items)}"
process_key(items) == <<"memory", Len(items)>>

\* MemoryManager.process
Process(content, context) ==
    /\ now < MaxTime
    /\ LET key == process_key(memory_items)
           stored == store_memory(memory_items, key, content, Scale, now)
           relevant_memories == retrieve_memories(content, context, stored,
                                                  default_max_results, now)
           touched == touch(stored, Elems(ResultKeys(relevant_memories)), now)
           consolidates == (interaction_count + 1) % consolidation_frequency = 0
           report == consolidate_memories(touched, efficiency_target)
       IN  /\ memory_items' = IF consolidates THEN report.updated_memories ELSE touched
           /\ consolidated_insights' =
                  IF consolidates THEN consolidated_insights \cup report.insights
                  ELSE consolidated_insights
           /\ consolidation_count' = consolidation_count + (IF consolidates THEN 1 ELSE 0)
           /\ efficiency_history' = record_retrieval(efficiency_history, Len(relevant_memories),
                                                     Len(stored), now)
           /\ ret' = [key |-> key, content |-> content, priority |-> Scale,
                      memories |-> ResultKeys(relevant_memories),
                      consolidation_performed |-> consolidates]
    /\ interaction_count' = interaction_count + 1
    /\ processing_count' = processing_count + 1
    /\ now' = now + 1
    /\ op' = "process"
    /\ UNCHANGED <<efficiency_target, in_progress>>

\* variant: a reset that leaves the interaction counter as it is
ResetKeepsInteractions ==
    /\ now < MaxTime
    /\ memory_items' = <<>>
    /\ consolidated_insights' = {}
    /\ consolidation_count' = 0
    /\ processing_count' = 0
    /\ now' = now + 1
    /\ op' = "reset"
    /\ ret' = <<>>
    /\ UNCHANGED <<interaction_count, efficiency_history, efficiency_target, in_progress>>

\* MemoryManager.reset
Reset ==
    /\ now < MaxTime
    /\ memory_items' = <<>>
    /\ consolidated_insights' = {}
    /\ consolidation_count' = 0
    /\ interaction_count' = 0
    /\ processing_count' = 0
    /\ now' = now + 1
    /\ op' = "reset"
    /\ ret' = <<>>
    /\ UNCHANGED <<efficiency_history, efficiency_target, in_progress>>

\* the 100K character limit of validate_content_input
max_content_length == 100000

\* the hard cap of MemoryAPI.retrieve_memories on max_results
max_results_cap == 50

\* ValidationUtils.validate_content_input: the content is accepted
validate_content_input(content) ==
    /\ StrLen(content) # 0
    /\ StrLen(content) <= max_content_length
    /\ Strip(content) # <<>>

\* MemoryAPI.store_memory: validates, then stores under the key of the clock
APIStoreMemory(content, context, priority) ==
    /\ now < MaxTime
    /\ IF validate_content_input(content) /\ priority >= 0 /\ priority <= Scale
       THEN /\ memory_items' = store_memory(memory_items, user_memory_key(now), content,
                                            priority, now)
            /\ interaction_count' = interaction_count + 1
            /\ ret' = [success |-> TRUE, key |-> user_memory_key(now), content |-> content,
                       context |-> context, priority |-> priority]
       ELSE /\ UNCHANGED <<memory_items, interaction_count>>
            /\ ret' = [success |-> FALSE, key |-> <<>>, content |-> content,
                       context |-> context, priority |-> priority]
    /\ now' = now + 1
    /\ op' = "api_store_memory"
    /\ UNCHANGED <<consolidated_insights, consolidation_count, processing_count,
                   efficiency_history, efficiency_target, in_progress>>

\* MemoryAPI.retrieve_memories: validates, then retrieves through the manager
APIRetrieveMemories(query, max_results, context) ==
    /\ now < MaxTime
    /\ IF validate_content_input(query) /\ max_results > 0 /\ max_results <= max_results_cap
       THEN LET relevant_memories ==
                    retrieve_memories(query, context, memory_items, max_results, now)
            IN  /\ memory_items' = touch(memory_items, Elems(ResultKeys(relevant_memories)), now)
                /\ efficiency_history' = record_retrieval(efficiency_history,
                                                          Len(relevant_memories),
                                                          Len(memory_items), now)
                /\ ret' = [success |-> TRUE, memories |-> ResultKeys(relevant_memories),
                           query |-> query, context |-> context, max_results |-> max_results]
       ELSE /\ UNCHANGED <<memory_items, efficiency_history>>
            /\ ret' = [success |-> FALSE, memories |-> <<>>, query |-> query,
                       context |-> context, max_results |-> max_results]
    /\ now' = now + 1
    /\ op' = "api_retrieve_memories"
    /\ UNCHANGED <<consolidated_insights, interaction_count, consolidation_count,
                   processing_count, efficiency_target, in_progress>>

\* the store with every operation; callers store TextA or TextC and ask about "neural"
Next ==
    \/ \E content \in {TextA, TextC} : StoreMemory(user_memory_key(now), content, Scale)
    \/ \E max_results \in {1, default_max_results} :
           RetrieveRelevantMemories(<<"neural">>, DomainCtx, max_results)
    \/ ConsolidateMemory
    \/ \E query \in {<<"neural">>, <<"analysis">>, <<"thus">>} :
           ConsolidateExperience(query, <<"up">>, DomainCtx)
    \/ \E content \in {TextA, TextC} : Process(content, EmptyCtx)
    \/ Reset

Spec == Init /\ [][Next]_vars

\* the same store configured with the low efficiency target
SpecLowTarget == InitLowTarget /\ [][Next]_vars

\* puts alone: a caller of store_memory that uses a new key or the key of a live item
NextPuts ==
    \E key \in Keys(memory_items) \cup {user_memory_key(now)}, content \in {TextA, TextB, TextC} :
        StoreMemory(key, content, Scale)

SpecPuts == Init /\ [][NextPuts]_vars

\* puts and gets: callers store TextA, TextB or TextD and ask about "neural" or "analysis"
NextRetrieval ==
    \/ \E content \in {TextA, TextB, TextD} : StoreMemory(user_memory_key(now), content, Scale)
    \/ \E query \in {<<"neural">>, <<"analysis">>}, max_results \in {1, default_max_results} :
           RetrieveRelevantMemories(query, EmptyCtx, max_results)

SpecRetrieval == Init /\ [][NextRetrieval]_vars

\* puts, experiences and consolidation passes; one content repeats a token
NextConsolidation ==
    \/ \E content \in {TextA, TextC, TextM} :
           StoreMemory(user_memory_key(now), content, Scale)
    \/ ConsolidateExperience(<<"neural">>, <<"up">>, DomainCtx)
    \/ ConsolidateMemory

SpecConsolidation == Init /\ [][NextConsolidation]_vars

\* experiences and puts followed by any number of consolidate_memory calls
NextRepeat ==
    \/ ConsolidateExperience(TextM, <<"up">>, DomainCtx)
    \/ StoreMemory(user_memory_key(now), TextM, Scale)
    \/ ConsolidateMemoryAgain

SpecRepeat == Init /\ [][NextRepeat]_vars

\* puts from one thread while another thread runs consolidate_memory
NextConcurrent ==
    \/ \E content \in {TextA, TextC, TextM} :
           StoreMemory(user_memory_key(now), content, Scale)
    \/ ConsolidateMemoryBegin
    \/ ConsolidateMemoryEnd

SpecConcurrent == InitLowTarget /\ [][NextConcurrent]_vars

\* a priority above 1.0
high_priority == 15000

\* callers of the API and of the manager that also pass an empty content, a
\* priority above 1.0 and a max_results outside 1..50
NextAPI ==
    \/ \E content \in {<<>>, TextA}, priority \in {Scale, high_priority} :
           APIStoreMemory(content, DomainCtx, priority)
    \/ \E call \in {<< <<>>, Scale >>, <<TextA, high_priority>>, <<TextC, Scale>>} :
           StoreMemory(user_memory_key(now), call[1], call[2])
    \/ \E content \in {<<>>, TextC} : Process(content, EmptyCtx)
    \/ \E max_results \in {0, 1, max_results_cap + 1} :
           APIRetrieveMemories(<<"neural">>, max_results, DomainCtx)
    \/ \E max_results \in {-1, 0, 1} :
           RetrieveRelevantMemories(<<"neural">>, DomainCtx, max_results)

SpecAPI == Init /\ [][NextAPI]_vars

\* priorities a caller of store_memory passes, within [0, 1]
Priorities == {0, 5000, Scale}

\* puts of an empty, a plain and an indicator-bearing content at each priority
NextScorer ==
    \E content \in {<<>>, TextA, TextC}, priority \in Priorities :
        StoreMemory(user_memory_key(now), content, priority)

SpecScorer == Init /\ [][NextScorer]_vars

\* the largest count a caller of calculate_retrieval_efficiency passes
MaxCount == 20

\* the number of calls of calculate_retrieval_efficiency the model follows
MaxSamples == 12

\* the window efficiency_history[-10:] the readers of the history look at
history_window == 10

\* a fresh optimizer and a caller that passes retrieved_count and total_memories
InitEfficiency ==
    /\ memory_items = <<>>
    /\ consolidated_insights = {}
    /\ interaction_count = 0
    /\ consolidation_count = 0
    /\ processing_count = 0
    /\ efficiency_history = <<>>
    /\ now = 0
    /\ efficiency_target = default_efficiency_target
    /\ in_progress = <<>>
    /\ op = "init"
    /\ \E retrieved_count \in 0..MaxCount, total_memories \in 0..MaxCount :
           ret = [retrieved_count |-> retrieved_count, total_memories |-> total_memories]

\* EfficiencyOptimizer.calculate_retrieval_efficiency, called with the caller's counts
CalculateRetrievalEfficiency ==
    /\ now < MaxSamples
    /\ efficiency_history' = record_retrieval(efficiency_history, ret.retrieved_count,
                                              ret.total_memories, now)
    /\ ret' = [retrieved_count |-> ret.retrieved_count,
               total_memories |-> ret.total_memories,
               retrieval_efficiency |->
                   retrieval_efficiency(ret.retrieved_count, ret.total_memories)]
    /\ now' = now + 1
    /\ op' = "calculate_retrieval_efficiency"
    /\ UNCHANGED <<memory_items, consolidated_insights, interaction_count, consolidation_count,
                   processing_count, efficiency_target, in_progress>>

NextEfficiency == CalculateRetrievalEfficiency

SpecEfficiency == InitEfficiency /\ [][NextEfficiency]_vars

\* puts and consolidation passes over contents whose topic clusters overlap
NextGroups ==
    \/ \E content \in {TextA, TextN} : StoreMemory(user_memory_key(now), content, Scale)
    \/ ConsolidateExperience(<<"neural">>, <<"up">>, DomainCtx)
    \/ ConsolidateMemory

SpecGroups == Init /\ [][NextGroups]_vars

\* ------------------------------------------------------------------ properties
\* C1: each time store_memory returns, the store holds at most memory_budget
\* live items
C1_CapacityAfterPut ==
    op = "store_memory" => Len(memory_items) <= memory_budget

\* a put that made the budget evict: more puts than the budget, the store is full
\* and the first item put is gone
C1_PutEvicted ==
    /\ op = "store_memory"
    /\ interaction_count > memory_budget
    /\ Len(memory_items) = memory_budget
    /\ ~HasKey(memory_items, user_memory_key(0))

\* C2: right after consolidate_memory or consolidate_experience returns, the
\* store holds at most memory_budget live items
C2_CapacityAfterConsolidate ==
    op \in {"consolidate_memory", "consolidate_experience"}
        => Len(memory_items) <= memory_budget

\* C3: every live item has a reasoning_value between 0.0 and 1.0, also after
\* consolidation passes that apply the 1.2 bonus
C3_ValueBound ==
    \A i \in 1..Len(memory_items) :
        /\ memory_items[i][2].reasoning_value >= 0
        /\ memory_items[i][2].reasoning_value <= Scale

\* a merged item whose sources average above 1.0 / 1.2: its value is 1.0
C3_MergedValueAtCap ==
    /\ op = "consolidate_experience"
    /\ \E i \in 1..Len(memory_items) :
           /\ memory_items[i][1][1] = "consolidated"
           /\ memory_items[i][2].reasoning_value = Scale

\* C4: a put under a new key, when the live items and the new item have pairwise
\* distinct reasoning values, leaves exactly the memory_budget highest-valued of
\* them (all of them when they fit); by induction over the puts, the live set
\* after C+k such puts is the C highest-valued of all C+k items
C4_EvictionKeepsHighest ==
    [][(op' = "store_memory" /\ ~HasKey(memory_items, ret'.key)) =>
          LET new_value == assess_reasoning_value(ret'.content, ret'.priority)
              candidates ==
                  {<<memory_items[i][1], memory_items[i][2].reasoning_value>> :
                      i \in 1..Len(memory_items)} \cup {<<ret'.key, new_value>>}
              kept == {<<memory_items'[i][1], memory_items'[i][2].reasoning_value>> :
                          i \in 1..Len(memory_items')}
          IN  (\A a, b \in candidates : a # b => a[2] # b[2]) =>
                  /\ kept \subseteq candidates
                  /\ Cardinality(kept) = Min(memory_budget, Cardinality(candidates))
                  /\ Len(memory_items') = Cardinality(kept)
                  /\ \A a \in kept, b \in candidates \ kept : a[2] > b[2]
      ]_vars

\* budget + 1 puts under distinct keys with distinct values, the lowest put second:
\* the second item is gone, the first and the last are live
C4_MiddleEvicted ==
    /\ op = "store_memory"
    /\ now = memory_budget + 1
    /\ interaction_count = memory_budget + 1
    /\ Len(memory_items) = memory_budget
    /\ ~HasKey(memory_items, user_memory_key(1))
    /\ HasKey(memory_items, user_memory_key(0))
    /\ \A i \in 1..Len(memory_items) : memory_items[i][1] = user_memory_key(memory_items[i][2].timestamp)
    /\ \A i, j \in 1..Len(memory_items) :
           i # j => memory_items[i][2].reasoning_value # memory_items[j][2].reasoning_value

\* C5: when a put evicts, no evicted item has the reasoning_value of a kept item
\* and a newer timestamp than it: among equal values the oldest go first
C5_TiesEvictOldest ==
    [][op' = "store_memory" =>
          LET new_item == MemoryItem(ret'.key, ret'.content, EmptyCtx,
                                     assess_reasoning_value(ret'.content, ret'.priority),
                                     now, 0)
              candidates == Put(memory_items, ret'.key, new_item)
          IN  \A i \in 1..Len(candidates), j \in 1..Len(memory_items') :
                  (/\ ~HasKey(memory_items', candidates[i][1])
                   /\ candidates[i][2].reasoning_value = memory_items'[j][2].reasoning_value)
                      => candidates[i][2].timestamp <= memory_items'[j][2].timestamp
      ]_vars

\* C6: every put made by process, by the API's store_memory or by
\* consolidate_experience stores the new item under a key that is not the key of
\* an item live at that moment
C6_PutUsesFreshId ==
    [][op' \in {"process", "store_memory", "consolidate_experience"}
          => ~HasKey(memory_items, ret'.key)
      ]_vars

\* C7: a consolidation pass replaces no item outside its merged groups, and the
\* count after merging (the final count plus the pruned items) is the count
\* before minus, for each group, its number of source ids less one
C7_MergeKeepsOthers ==
    [][op' \in {"consolidate_memory", "consolidate_experience"} =>
          LET input == IF op' = "consolidate_memory" THEN memory_items
                       ELSE store_experience(memory_items, ret'.query, ret'.result,
                                             ret'.context, now)
              groups == identify_consolidation_groups(topic_clusters(input),
                                                      identify_reasoning_chains(input))
              merged_ids == UNION {Elems(groups[g]) : g \in 1..Len(groups)}
              saved == Cardinality(UNION {{<<g, id>> : id \in Elems(groups[g])} :
                                             g \in 1..Len(groups)}) - Len(groups)
          IN  /\ Len(memory_items') + ret'.memories_pruned = Len(input) - saved
              /\ ret'.memories_pruned = 0 =>
                     \A i \in 1..Len(input) :
                         input[i][1] \notin merged_ids =>
                             \E j \in 1..Len(memory_items') : memory_items'[j] = input[i]
      ]_vars

\* C8: retrieve_relevant_memories adds exactly 1 to the access_count of each item
\* it returns and sets its last_accessed, and changes nothing else: not the other
\* items, not any content, reasoning_value or timestamp, not the live keys
C8_GetCountsAccess ==
    [][op' = "retrieve_relevant_memories" =>
          /\ Len(memory_items') = Len(memory_items)
          /\ \A i \in 1..Len(memory_items) :
                 LET old == memory_items[i][2]
                     new == memory_items'[i][2]
                 IN  /\ memory_items'[i][1] = memory_items[i][1]
                     /\ new.id = old.id
                     /\ new.content = old.content
                     /\ new.context = old.context
                     /\ new.reasoning_value = old.reasoning_value
                     /\ new.timestamp = old.timestamp
                     /\ IF memory_items[i][1] \in Elems(ret'.memories)
                        THEN /\ new.access_count = old.access_count + 1
                             /\ new.last_accessed = now
                        ELSE /\ new.access_count = old.access_count
                             /\ new.last_accessed = old.last_accessed
      ]_vars

\* two gets have returned one item, whose access_count is 2, and passed over
\* another, whose access_count is 0
C8_TwoGetsCounted ==
    /\ op = "retrieve_relevant_memories"
    /\ \E i, j \in 1..Len(memory_items) :
           /\ memory_items[i][1] \in Elems(ret.memories)
           /\ memory_items[i][2].access_count = 2
           /\ memory_items[j][1] \notin Elems(ret.memories)
           /\ memory_items[j][2].access_count = 0

\* C9: for every ordered pair of distinct items of a get result, the semantic
\* similarity of the first's content to the second's is at most 0.8
C9_ResultPairwiseDiverse ==
    op = "retrieve_relevant_memories" =>
        \A i, j \in 1..Len(ret.memories) :
            i # j =>
                calculate_semantic_similarity(Get(memory_items, ret.memories[i]).content,
                                              Get(memory_items, ret.memories[j]).content)
                    <= similarity_threshold

\* C10: a get returns what retrieve_memories computes from the store, the clock
\* and the arguments, in descending order of relevance score, and items of equal
\* score in their order in the store
C10_TiesInInsertionOrder ==
    [][op' = "retrieve_relevant_memories" =>
          LET result == ret'.memories
              score(k) == calculate_comprehensive_relevance(ret'.query, ret'.context,
                                                            Get(memory_items, k), now)
          IN  /\ result = ResultKeys(retrieve_memories(ret'.query, ret'.context, memory_items,
                                                       ret'.max_results, now))
              /\ \A i, j \in 1..Len(result) :
                     i < j =>
                         \/ score(result[i]) > score(result[j])
                         \/ /\ score(result[i]) = score(result[j])
                            /\ IndexOf(memory_items, result[i]) < IndexOf(memory_items, result[j])
      ]_vars

\* a get has returned two items of different content and the same score
C10_TieReturned ==
    /\ op = "retrieve_relevant_memories"
    /\ \E i, j \in 1..Len(ret.memories) :
           LET a == Get(memory_items, ret.memories[i])
               b == Get(memory_items, ret.memories[j])
               score(m) == calculate_comprehensive_relevance(
                               ret.query, ret.context,
                               [m EXCEPT !.access_count = @ - 1], m.last_accessed)
           IN  /\ i < j
               /\ a.content # b.content
               /\ score(a) = score(b)

\* C11: a put with empty content or with a priority outside [0,1] is rejected on
\* every entry point that stores (the API's store_memory, the manager's
\* store_memory, process) and leaves the items and interaction_count unchanged
C11_InvalidPutRejected ==
    [][(/\ op' \in {"api_store_memory", "store_memory", "process"}
        /\ \/ ret'.content = <<>>
           \/ ret'.priority < 0
           \/ ret'.priority > Scale) =>
          /\ memory_items' = memory_items
          /\ interaction_count' = interaction_count
      ]_vars

\* C12: a get with max_results <= 0 or above 50 changes no item and no tracker
\* history, and every other get returns at most max_results items
C12_MaxResultsEnforced ==
    [][op' \in {"api_retrieve_memories", "retrieve_relevant_memories"} =>
          IF ret'.max_results <= 0 \/ ret'.max_results > max_results_cap
          THEN /\ memory_items' = memory_items
               /\ efficiency_history' = efficiency_history
               /\ ret'.memories = <<>>
          ELSE Len(ret'.memories) <= ret'.max_results
      ]_vars

\* C13: after a put through the API succeeds and its item is live, the stored
\* item's context is the context that was put
C13_ContextStored ==
    [][(/\ op' = "api_store_memory"
        /\ ret'.success
        /\ HasKey(memory_items', ret'.key)) =>
          Get(memory_items', ret'.key).context = ret'.context
      ]_vars

C15_SmallSetNotMerged ==
    [][(/\ op' = "consolidate_memory"
        /\ Len(memory_items) < 3
        /\ \A i, j \in 1..Len(memory_items) :
               i # j => classify_reasoning_type(memory_items[i][2].content)
                            # classify_reasoning_type(memory_items[j][2].content)) =>
          /\ ret'.memories_consolidated = 0
          /\ \A j \in 1..Len(memory_items') :
                 \E i \in 1..Len(memory_items) : memory_items[i] = memory_items'[j]
      ]_vars

\* C16: in the groups of one consolidation pass every id is in at most one group
\* and at most once in it, so every group has at least 2 distinct sources
C16_GroupsDisjoint ==
    [][op' \in {"consolidate_memory", "consolidate_experience"} =>
          LET input == IF op' = "consolidate_memory" THEN memory_items
                       ELSE store_experience(memory_items, ret'.query, ret'.result,
                                             ret'.context, now)
              groups == identify_consolidation_groups(topic_clusters(input),
                                                      identify_reasoning_chains(input))
          IN  /\ \A g \in 1..Len(groups) :
                     /\ Cardinality(Elems(groups[g])) = Len(groups[g])
                     /\ Cardinality(Elems(groups[g])) >= 2
              /\ \A g, h \in 1..Len(groups) :
                     g # h => Elems(groups[g]) \cap Elems(groups[h]) = {}
      ]_vars

\* C18: the pruning step of a pass over original_count items removes nothing when
\* the mean value after merging is at least efficiency_target; otherwise it retains
\* the floor(original_count * efficiency_target) highest-valued items (all of them
\* when fewer are left), and memories_pruned counts the items removed
C18_PruneToOriginalTarget ==
    [][op' \in {"consolidate_memory", "consolidate_experience"} =>
          LET input == IF op' = "consolidate_memory" THEN memory_items
                       ELSE store_experience(memory_items, ret'.query, ret'.result,
                                             ret'.context, now)
              groups == identify_consolidation_groups(topic_clusters(input),
                                                      identify_reasoning_chains(input))
              merged == perform_consolidation(input, groups)
              target_count == (Len(input) * efficiency_target) \div Scale
              kept == {memory_items'[j] : j \in 1..Len(memory_items')}
              removed == {merged[j] : j \in 1..Len(merged)} \ kept
          IN  IF merged = <<>> \/ SumValues(Values(merged)) >= efficiency_target * Len(merged)
              THEN /\ kept = {merged[j] : j \in 1..Len(merged)}
                   /\ ret'.memories_pruned = 0
              ELSE /\ kept \subseteq {merged[j] : j \in 1..Len(merged)}
                   /\ Len(memory_items') = Min(Max(0, target_count), Len(merged))
                   /\ \A a \in removed, b \in kept :
                          a[2].reasoning_value <= b[2].reasoning_value
                   /\ ret'.memories_pruned = Cardinality(removed)
      ]_vars

\* C19: consolidate_memory on an empty store returns a report with 0 merges,
\* 0 prunes, no insights and efficiency 1.0, and leaves the store empty
C19_EmptyConsolidation ==
    [][(op' = "consolidate_memory" /\ memory_items = <<>>) =>
          /\ memory_items' = <<>>
          /\ ret'.memories_consolidated = 0
          /\ ret'.memories_pruned = 0
          /\ ret'.insights = {}
          /\ ret'.efficiency_score = Scale
          /\ consolidated_insights' = consolidated_insights
      ]_vars

\* consolidate_memory has returned from an empty store that was never filled
C19_EmptyConsolidated ==
    /\ op = "consolidate_memory"
    /\ interaction_count = 0
    /\ consolidation_count = now
    /\ now >= 1
    /\ memory_items = <<>>
    /\ ret.efficiency_score = Scale

\* C17: repeated consolidate_memory calls converge to a pass that reports 0 merges
\* and 0 prunes and leaves the live set unchanged. A pass is a function of the
\* live set, so a pass that returns the live set it was given is every later
\* pass: convergence requires that such a pass reports 0 merges and 0 prunes
C17_FixedPointReportsNothing ==
    [][(op' = "consolidate_memory" /\ memory_items' = memory_items) =>
          (ret'.memories_consolidated = 0 /\ ret'.memories_pruned = 0)
      ]_vars

\* C20: a store_memory that runs while a consolidate_memory is in progress is not
\* lost. An item put during the pass that both orders of the two calls keep (the
\* pass over the store with the item leaves it in place, and a put after the pass
\* would not exceed the budget) is live when the pass has returned
C20_PutDuringPassNotLost ==
    [][(in_progress # <<>> /\ in_progress' = <<>> /\ op' = "consolidate_memory") =>
          \A i \in 1..Len(memory_items) :
              (/\ ~HasKey(in_progress.snapshot, memory_items[i][1])
               /\ \E j \in 1..Len(consolidate_memories(memory_items, efficiency_target).updated_memories) :
                      consolidate_memories(memory_items, efficiency_target).updated_memories[j]
                          = memory_items[i]
               /\ Len(in_progress.report.updated_memories) < memory_budget) =>
                  \E j \in 1..Len(memory_items') : memory_items'[j] = memory_items[i]
      ]_vars

\* C21: a reset leaves the live set and the insights empty and the consolidation,
\* interaction and processing counters at zero, and a reset that follows a reset
\* changes nothing of the manager's state
C21_ResetClearsAndIsIdempotent ==
    [][op' = "reset" =>
          /\ memory_items' = <<>>
          /\ consolidated_insights' = {}
          /\ consolidation_count' = 0
          /\ interaction_count' = 0
          /\ processing_count' = 0
          /\ (op = "reset" =>
                 <<memory_items, consolidated_insights, consolidation_count,
                   interaction_count, processing_count, efficiency_history,
                   efficiency_target, in_progress>>'
                 = <<memory_items, consolidated_insights, consolidation_count,
                     interaction_count, processing_count, efficiency_history,
                     efficiency_target, in_progress>>)]_vars

\* a reset as the third operation, after a get that returned from a non-empty store
C21_ResetAfterUse ==
    op = "reset" /\ now = 3 /\ efficiency_history # <<>> /\ memory_items = <<>>

\* C22: the score _assess_reasoning_value gives a content at a priority within
\* [0, 1] lies within [0, 1], and it is 0 when the content is empty
C22_ScoreInRangeAndZeroWhenEmpty ==
    op = "store_memory" =>
        \A reasoning_value \in {assess_reasoning_value(ret.content, ret.priority)} :
            /\ 0 <= reasoning_value
            /\ reasoning_value <= Scale
            /\ (ret.content = <<>> => reasoning_value = 0)

\* C23: every get appends exactly one sample to the history of the efficiency
\* optimizer, holding the number of items returned and the number of live items,
\* also when the store is empty or nothing is returned
C23_EveryGetRecordsOneSample ==
    [][op' = "retrieve_relevant_memories" =>
          /\ Len(efficiency_history') = Len(efficiency_history) + 1
          /\ SubSeq(efficiency_history', 1, Len(efficiency_history)) = efficiency_history
          /\ efficiency_history'[Len(efficiency_history')].retrieved_count = Len(ret'.memories)
          /\ efficiency_history'[Len(efficiency_history')].total_memories = Len(memory_items)]_vars

\* C24: the history of the efficiency optimizer is a sliding window: however many
\* samples are recorded, it never holds more than the window of 10 samples
C24_HistoryIsBoundedWindow ==
    Len(efficiency_history) <= history_window

\* C25: for total_memories >= 1 the efficiency returned lies within [0, 1]; within
\* the band 0.05 <= retrieved/total <= 0.2 it is min(1, 1 - min(0.9, r) + 0.2), so
\* 1 of 20 gives the maximum 1 and 18 of 20 gives less than 0.1
C25_EfficiencyInUnitInterval ==
    (op = "calculate_retrieval_efficiency" /\ ret.total_memories >= 1) =>
        \A r \in {(ret.retrieved_count * Scale) \div ret.total_memories} :
            /\ 0 <= ret.retrieval_efficiency
            /\ ret.retrieval_efficiency <= Scale
            /\ (/\ 20 * ret.retrieved_count >= ret.total_memories
                /\ 5 * ret.retrieved_count <= ret.total_memories)
               => ret.retrieval_efficiency = Min(Scale, Scale - Min(9000, r) + 2000)
            /\ (ret.retrieved_count = 1 /\ ret.total_memories = 20)
               => ret.retrieval_efficiency = Scale
            /\ (ret.retrieved_count = 18 /\ ret.total_memories = 20)
               => ret.retrieval_efficiency < 1000

\* C26: in every consolidation pass each group taken from a topic cluster has at
\* least 3 members once the ids claimed by earlier groups are removed, and each
\* group taken from a reasoning chain has at least 2 unclaimed members
C26_GroupSizes ==
    [][op' \in {"consolidate_memory", "consolidate_experience"} =>
          \A input \in {IF op' = "consolidate_memory" THEN memory_items
                         ELSE store_experience(memory_items, ret'.query, ret'.result,
                                               ret'.context, now)} :
          \A topic_groups \in {GroupLoop(Values(topic_clusters(input)), 3, <<(<<>>), {}>>)} :
          \A groups \in {GroupLoop(identify_reasoning_chains(input), 2, topic_groups)[1]} :
              /\ \A g \in 1..Len(topic_groups[1]) : Len(groups[g]) >= 3
              /\ \A g \in (Len(topic_groups[1]) + 1)..Len(groups) : Len(groups[g]) >= 2
      ]_vars

\* C27: when a consolidation pass has returned, the mean reasoning_value of the
\* items that pruning kept is at least efficiency_target, or nothing is kept
C27_PruningReachesTarget ==
    op \in {"consolidate_memory", "consolidate_experience"} =>
        \/ memory_items = <<>>
        \/ SumValues(Values(memory_items)) >= efficiency_target * Len(memory_items)

\* C28: when store_memory has returned key k, an item with id k is live, unless
\* the put overflowed the budget and the new reasoning_value is strictly lower
\* than the value of every other item that was live: a put that ties with or
\* exceeds another live item is not evicted by its own put
C28_PutLiveUnlessStrictlyLowest ==
    [][op' = "store_memory" =>
          \A new_value \in {assess_reasoning_value(ret'.content, ret'.priority)} :
              \/ /\ HasKey(memory_items', ret'.key)
                 /\ Get(memory_items', ret'.key).id = ret'.key
              \/ /\ Len(Del(memory_items, ret'.key)) + 1 > memory_budget
                 /\ \A i \in 1..Len(memory_items) :
                        memory_items[i][1] # ret'.key
                            => new_value < memory_items[i][2].reasoning_value
      ]_vars

\* C29: in every reachable state each live item is stored under a key equal to
\* its id field and no two live items have the same id field, merged items included
C29_KeysAreIds ==
    /\ \A i \in 1..Len(memory_items) : memory_items[i][1] = memory_items[i][2].id
    /\ \A i, j \in 1..Len(memory_items) :
           i # j => memory_items[i][2].id # memory_items[j][2].id

====
